---- MODULE Spec2Model ----
(***************************************************************************)
(* Model of src/trading-service.py: the Glorb trader HTTP service.         *)
(*                                                                         *)
(* State: the module-level session store, the TradingService singleton     *)
(* (pending_trades, executed_trades, config, the two venue adapters) and   *)
(* the wall clock that TradeSuggestion ids are derived from.               *)
(*                                                                         *)
(* Numbers.  Python floats are modelled by exact scaled integers:          *)
(*   - prices of the binary venue and confidences are in permille          *)
(*     (0.5 is 500, 1.0 is 1000);                                          *)
(*   - the 24h change of the spot venue is in tenths of a percent          *)
(*     (2% is 20, 10% is 100);                                             *)
(*   - amounts are exact fractions <<numerator, denominator>>.             *)
(*                                                                         *)
(* Requests.  A POST body is either not JSON (body_ok = FALSE) or a JSON   *)
(* object whose fields have the types the API documents; a missing field   *)
(* is the value Missing and takes the default the handler gives it.        *)
(***************************************************************************)
EXTENDS Integers, Sequences, FiniteSets, TLC

VARIABLES
    TRADING_AVAILABLE,  \* the import of the trading modules succeeded
    kalshi,             \* TradingService.kalshi: "client" or "None"
    kraken,             \* TradingService.kraken: "client" or "None"
    config,             \* TradingService.config
    active_sessions,    \* token -> username
    pending_trades,     \* trade id -> suggestion
    executed_trades,    \* TradingService.executed_trades
    now,                \* int(datetime.now().timestamp()) at the last request
    req,                \* the request handled last
    resp,               \* the response sent for it
    placed,             \* the place_order calls made while handling it
    last_removed,       \* history: the id deleted from pending_trades last
    threads             \* handlers in flight under a threading transport

vars == <<TRADING_AVAILABLE, kalshi, kraken, config, active_sessions,
          pending_trades, executed_trades, now, req, resp, placed, last_removed,
          threads>>

---------------------------------------------------------------------------
(* Bounds of the model *)

\* seconds of wall-clock time that pass
MaxClock == 0
\* session tokens that can be issued
MaxSessions == 1
\* entries pending_trades can hold at once
MaxPending == 1

---------------------------------------------------------------------------
(* Values *)

\* a JSON field is <<v>> when present and Missing when absent
Missing == <<>>
\* Python's None, as a trade id
None == <<"None">>
NoToken == 0

Tokens == 1 .. MaxSessions
\* the bearer token of a request: NoToken when the Authorization header is
\* absent or does not start with 'Bearer '
RequestTokens == {NoToken} \cup Tokens

Min(a, b) == IF a < b THEN a ELSE b
Abs(x) == IF x < 0 THEN -x ELSE x

\* hashlib.sha256(p).hexdigest(): injective on the passwords considered
sha256(p) == <<"sha256", p>>

USERS ==
    [admin |-> [password_hash |-> sha256("glorb2024"), role |-> "admin"],
     glorb |-> [password_hash |-> sha256("trader123"), role |-> "user"]]

\* data.get('username', ''), data.get('password', '')
Usernames == {"admin", ""}
Passwords == {"glorb2024", "trader123"}

verify_password(username, password) ==
    IF username \notin DOMAIN USERS
    THEN FALSE
    ELSE sha256(password) = USERS[username].password_hash

---------------------------------------------------------------------------
(* TradeSuggestion *)

\* __post_init__: the id is built from market, symbol and the current second
TradeId(market, symbol, t) == <<"trade", market, symbol, t>>

TradeSuggestion(market, symbol, side, amount, price, confidence, t) ==
    [market |-> market, symbol |-> symbol, side |-> side, amount |-> amount,
     price |-> price, confidence |-> confidence,
     id |-> TradeId(market, symbol, t)]

\* dict.get(key, default) on a field that is <<v>> or Missing
Get(f, default) == IF f = Missing THEN default ELSE f[1]

---------------------------------------------------------------------------
(* Recommendation engine *)

\* markets[:20]
MarketLimit == 20

\* the default watch list of get_kraken_recommendations
WatchList == <<"BTC/USD", "ETH/USD", "SOL/USD", "XRP/USD", "ADA/USD">>

Take(s, n) == SubSeq(s, 1, Min(n, Len(s)))

\* confidence = abs(current_price - 0.5) * 2, in permille
KalshiConfidence(current_price) == Abs(current_price - 500) * 2

\* the linear ramp without its saturation at a 10% move
UnclampedConfidence(change) == Abs(change) * 10

\* confidence = min(abs(change) / 10, 1.0), in permille; change in tenths of %
KrakenConfidence(change) == Min(Abs(change) * 10, 1000)

\* a filter that lets every market through
SkipsNothing(market) == FALSE

\* if volume < 1000: continue
KalshiSkips(market) == market.volume < 1000

\* The for loop of get_kalshi_recommendations from market i on, acc being the
\* suggestions appended so far.  A market the loop body raises on (malformed)
\* ends the loop in the except clause, which keeps acc.
RECURSIVE KalshiLoop(_, _, _, _, _)
KalshiLoop(markets, i, acc, trade_size, t) ==
    IF i > Len(markets) THEN acc
    ELSE LET market == markets[i] IN
         IF market.malformed THEN acc
         ELSE IF KalshiSkips(market)
              THEN KalshiLoop(markets, i + 1, acc, trade_size, t)
              ELSE KalshiLoop(markets, i + 1,
                       Append(acc,
                           TradeSuggestion("kalshi", market.id,
                               IF market.current_price > 500 THEN "yes" ELSE "no",
                               <<trade_size, 1>>,
                               market.current_price,
                               KalshiConfidence(market.current_price), t)),
                       trade_size, t)

\* fetch is what kalshi.get_markets does: [raises, markets]
get_kalshi_recommendations(available, client, fetch, trade_size, t) ==
    IF ~available \/ client = "None" THEN <<>>
    ELSE IF fetch.raises THEN <<>>
    ELSE KalshiLoop(Take(fetch.markets, MarketLimit), 1, <<>>, trade_size, t)

\* The for loop of get_kraken_recommendations from symbol i on.  tickers[i]
\* is what kraken.get_ticker(symbols[i]) does: kind "raise", "none" (a falsy
\* ticker) or "quote" with last, change, volume.  trade_size / last raises
\* ZeroDivisionError when last is 0; the except clause keeps acc.
RECURSIVE KrakenLoop(_, _, _, _, _, _)
KrakenLoop(symbols, tickers, i, acc, trade_size, t) ==
    IF i > Len(symbols) THEN acc
    ELSE LET ticker == tickers[i] IN
         IF ticker.kind = "raise" THEN acc
         ELSE IF ticker.kind = "none"
              THEN KrakenLoop(symbols, tickers, i + 1, acc, trade_size, t)
         ELSE IF ticker.volume < 10
              THEN KrakenLoop(symbols, tickers, i + 1, acc, trade_size, t)
         ELSE IF Abs(ticker.change) < 20
              THEN KrakenLoop(symbols, tickers, i + 1, acc, trade_size, t)
         ELSE IF ticker.last = 0 THEN acc
         ELSE KrakenLoop(symbols, tickers, i + 1,
                  Append(acc,
                      TradeSuggestion("kraken", symbols[i],
                          IF ticker.change > 0 THEN "buy" ELSE "sell",
                          <<trade_size, ticker.last>>,
                          ticker.last,
                          KrakenConfidence(ticker.change), t)),
                  trade_size, t)

get_kraken_recommendations(available, client, tickers, trade_size, t) ==
    IF ~available \/ client = "None" THEN <<>>
    ELSE KrakenLoop(WatchList, tickers, 1, <<>>, trade_size, t)

\* list.sort(key=lambda x: x.confidence, reverse=True): stable, descending.
\* Insert x behind every element whose confidence is at least x's.
RECURSIVE InsertByConfidence(_, _)
InsertByConfidence(sorted, x) ==
    IF sorted = <<>> THEN <<x>>
    ELSE IF Head(sorted).confidence >= x.confidence
         THEN <<Head(sorted)>> \o InsertByConfidence(Tail(sorted), x)
         ELSE <<x>> \o sorted

\* a list left in the order it was built in
Unsorted(s) == s

RECURSIVE SortByConfidence(_)
SortByConfidence(s) ==
    IF s = <<>> THEN <<>>
    ELSE InsertByConfidence(SortByConfidence(SubSeq(s, 1, Len(s) - 1)),
                            s[Len(s)])

\* a call that gives up on both venues when a spot-venue quote raises
AbortsOnSpotFailure(available, kalshi_client, kraken_client, snapshot, trade_size, t) ==
    IF \E k \in 1 .. Len(WatchList) : snapshot.kraken[k].kind = "raise"
    THEN <<>>
    ELSE SortByConfidence(
             get_kalshi_recommendations(available, kalshi_client,
                                        snapshot.kalshi, trade_size, t)
             \o get_kraken_recommendations(available, kraken_client,
                                           snapshot.kraken, trade_size, t))

\* snapshot is what the two venues answer during this call
get_all_recommendations(available, kalshi_client, kraken_client, snapshot, trade_size, t) ==
    SortByConfidence(
        get_kalshi_recommendations(available, kalshi_client, snapshot.kalshi,
                                   trade_size, t)
        \o get_kraken_recommendations(available, kraken_client,
                                      snapshot.kraken, trade_size, t))

---------------------------------------------------------------------------
(* Inputs of the requests *)

\* the seconds at which the next request can arrive
Times == {t \in {now, now + 1} : t <= MaxClock}

ReqMarkets == {Missing, <<"kraken">>, <<"doge">>}
ReqSymbols == {<<"M1">>}
ReqAmounts == {Missing}
ReqConfidences == {Missing}

\* the "suggestion" object of an execute request
ReqSuggestions ==
    [market : ReqMarkets, symbol : ReqSymbols, side : {Missing},
     amount : ReqAmounts, price : {Missing}, confidence : ReqConfidences]

\* an id no execute request creates
UnknownTradeId == TradeId("kalshi", "M0", 0)

\* the "trade_id" of a confirm or cancel request: a pending id, the id
\* removed last, an id never submitted, or None when the body has none
ReqTradeIds ==
    DOMAIN pending_trades \cup {last_removed, UnknownTradeId, None}

TradeSizes == {100, 0}

\* the body of a config update: a partial config object
ConfigUpdates ==
    [trade_size : {Missing},
     confirm_trades : {Missing, <<TRUE>>, <<FALSE>>},
     enabled : {Missing}]

\* what a venue's place_order does: returns an order, returns a result that
\* reports failure, or raises
Outcomes == {"ok", "failure", "raise"}

---------------------------------------------------------------------------
(* What the venues can answer to a recommendation call *)

\* markets get_markets can return in one call
MaxMarkets == 2

\* A market of the binary venue: its price is a probability, 0 to 1000
\* permille.  A malformed market is one the loop body raises on (a field of
\* the wrong type); its other fields are not read.
MarketData ==
    [current_price : {0, 200, 500, 1000}, volume : {999, 1000},
     malformed : {FALSE}]
    \cup {[current_price |-> 500, volume |-> 0, malformed |-> TRUE]}

\* the i-th market of a list has id "M<i>"
MarketIds == <<"M1", "M2", "M3", "M4">>

MarketLists ==
    UNION {[1 .. n -> MarketData] : n \in 0 .. MaxMarkets}

WithIds(list) ==
    [i \in 1 .. Len(list) |->
        [id |-> MarketIds[i], current_price |-> list[i].current_price,
         volume |-> list[i].volume, malformed |-> list[i].malformed]]

\* what kalshi.get_markets does
KalshiFetches ==
    {[raises |-> FALSE, markets |-> WithIds(l)] : l \in MarketLists}
    \cup {[raises |-> TRUE, markets |-> <<>>]}

Quote(last, change, volume) ==
    [kind |-> "quote", last |-> last, change |-> change, volume |-> volume]

\* quotes every symbol of the watch list is tried with: a 5% rise, a 15%
\* fall, and a quote without a last price (ticker.get('last', 0) is 0)
CoreQuotes ==
    {Quote(50000, 50, 100), Quote(2, -150, 10), Quote(0, 30, 100)}

\* answers one symbol at a time is tried with: no ticker, get_ticker raising,
\* volume below 10, a change below 2%
OtherQuotes ==
    {[kind |-> "none", last |-> 0, change |-> 0, volume |-> 0],
     [kind |-> "raise", last |-> 0, change |-> 0, volume |-> 0],
     Quote(50000, 50, 9), Quote(50000, -19, 100)}

\* what kraken.get_ticker does for each symbol of the watch list
KrakenTickers ==
    [1 .. Len(WatchList) -> CoreQuotes]
    \cup {[i \in 1 .. Len(WatchList) |->
              IF i = k THEN q ELSE Quote(50000, 50, 100)] :
          k \in 1 .. Len(WatchList), q \in OtherQuotes}

NoKalshiFetch == [raises |-> TRUE, markets |-> <<>>]
NoKrakenTickers ==
    [i \in 1 .. Len(WatchList) |->
        [kind |-> "raise", last |-> 0, change |-> 0, volume |-> 0]]

\* the snapshots a service with these adapters can see; the answer of a
\* venue whose adapter is None is never asked for
Snapshots(kalshi_client, kraken_client) ==
    [kalshi : IF kalshi_client = "client" THEN KalshiFetches
              ELSE {NoKalshiFetch},
     kraken : IF kraken_client = "client" THEN KrakenTickers
              ELSE {NoKrakenTickers}]

\* the snapshots the request handler is exercised with
HandlerSnapshots ==
    {[kalshi |-> [raises |-> FALSE,
                  markets |-> WithIds(<<[current_price |-> 200,
                                         volume |-> 1000,
                                         malformed |-> FALSE]>>)],
      kraken |-> [i \in 1 .. Len(WatchList) |-> Quote(2, -150, 10)]]}

---------------------------------------------------------------------------
(* Responses *)

NoResponse ==
    [code |-> 0, status |-> "none", trade_id |-> None, token |-> NoToken,
     data |-> <<>>]

\* send_json_response(code, {...}); the data of a response is the sequence
\* of the JSON objects it carries
Response(code, status) ==
    [code |-> code, status |-> status, trade_id |-> None, token |-> NoToken,
     data |-> <<>>]

TradeResponse(status, trade_id) ==
    [code |-> 200, status |-> status, trade_id |-> trade_id,
     token |-> NoToken, data |-> <<>>]

DataResponse(status, data) ==
    [code |-> 200, status |-> status, trade_id |-> None, token |-> NoToken,
     data |-> data]

---------------------------------------------------------------------------
(* Authentication *)

get_session_user(token) ==
    IF token \in DOMAIN active_sessions THEN active_sessions[token]
    ELSE "None"

\* a check that accepts any bearer token
AnyBearer(token) == token # NoToken

\* require_auth on a path other than /api/auth/login: `not user` rejects
require_auth(token) == get_session_user(token) \notin {"None", ""}

---------------------------------------------------------------------------
(* TradingService *)

\* a service that enforces the `enabled` flag
UnavailableOrDisabled == ~TRADING_AVAILABLE \/ ~config.enabled

\* if not TRADING_AVAILABLE: return False
TradingUnavailable == ~TRADING_AVAILABLE

\* execute_trade: [success, calls], calls being the place_order calls made.
\* With self.kalshi (self.kraken) None the attribute lookup raises inside the
\* try block, so no call is made and False is returned.
execute_trade(suggestion, outcome) ==
    LET call == <<[market |-> suggestion.market, symbol |-> suggestion.symbol,
                   side |-> suggestion.side, amount |-> suggestion.amount,
                   outcome |-> outcome]>>
        client == IF suggestion.market = "kalshi" THEN kalshi ELSE kraken
    IN IF TradingUnavailable THEN [success |-> FALSE, calls |-> <<>>]
       ELSE IF suggestion.market \in {"kalshi", "kraken"}
            THEN IF client = "None"
                 THEN [success |-> FALSE, calls |-> <<>>]
                 ELSE [success |-> outcome # "raise", calls |-> call]
            ELSE [success |-> FALSE, calls |-> <<>>]

\* an update that resets the keys the body does not name
ReplacesConfig(new_config) ==
    [trade_size |-> Get(new_config.trade_size, 100),
     confirm_trades |-> Get(new_config.confirm_trades, TRUE),
     enabled |-> Get(new_config.enabled, TRUE)]

\* update_config: dict.update with the keys the body names
update_config(new_config) ==
    [trade_size |-> Get(new_config.trade_size, config.trade_size),
     confirm_trades |-> Get(new_config.confirm_trades, config.confirm_trades),
     enabled |-> Get(new_config.enabled, config.enabled)]

---------------------------------------------------------------------------
(* Handlers in flight *)

\* A confirm or a cancel handler run step by step: where it is, its trade_id,
\* the suggestion it read, the place_order calls it made, its response,
\* whether its del succeeded, and whether the id was pending when it began.
IdleThread ==
    [pc |-> "idle", trade_id |-> None, suggestion |-> [id |-> None],
     success |-> FALSE, calls |-> <<>>, resp |-> NoResponse,
     deleted |-> FALSE, was_pending |-> FALSE]

\* overlapped: a handler took a step while the other one was in flight
NoThreads ==
    [confirm |-> IdleThread, cancel |-> IdleThread, overlapped |-> FALSE]

---------------------------------------------------------------------------
(* Construction *)

\* DEFAULT_TRADE_SIZE_USD and CONFIRM_TRADES come from the trading modules'
\* configuration; both adapters are None when the import failed.
Init ==
    /\ TRADING_AVAILABLE \in BOOLEAN
    /\ kalshi \in (IF TRADING_AVAILABLE THEN {"client", "None"} ELSE {"None"})
    /\ kraken \in (IF TRADING_AVAILABLE THEN {"client", "None"} ELSE {"None"})
    /\ config \in [trade_size : {100},
                   confirm_trades : (IF TRADING_AVAILABLE THEN BOOLEAN
                                     ELSE {TRUE}),
                   enabled : {TRUE}]
    /\ active_sessions = <<>>
    /\ pending_trades = <<>>
    /\ executed_trades = <<>>
    /\ now = 0
    /\ req = [method |-> "none", path |-> "none"]
    /\ resp = NoResponse
    /\ placed = <<>>
    /\ last_removed = None
    /\ threads = NoThreads

---------------------------------------------------------------------------
(* The request handlers, one request at a time (HTTPServer.serve_forever) *)

\* what every handler leaves alone
Fixed == UNCHANGED <<TRADING_AVAILABLE, kalshi, kraken, executed_trades,
                     threads>>

\* the request r was answered with response after the place_order calls
Serve(r, response, calls) ==
    /\ req' = r
    /\ resp' = response
    /\ placed' = calls
    /\ Fixed

\* a request that changes nothing
Reject(r, response) ==
    /\ Serve(r, response, <<>>)
    /\ UNCHANGED <<config, active_sessions, pending_trades, last_removed,
                   now>>

\* what json.loads leaves of a body that is not JSON
NoData == [body |-> "not JSON"]

\* a POST request: data is the JSON object of its body
PostRequest(path, token, body_ok, data) ==
    [method |-> "POST", path |-> path, token |-> token, body_ok |-> body_ok,
     data |-> IF body_ok THEN data ELSE NoData]

GetRequest(path, token) == [method |-> "GET", path |-> path, token |-> token]

\* a login that ends every other session
OnlySession(token, username) == [k \in {token} |-> username]

\* active_sessions[token] = username
StoreSession(token, username) ==
    [k \in DOMAIN active_sessions \cup {token} |->
        IF k = token THEN username ELSE active_sessions[k]]

\* POST /api/auth/login; fresh is what generate_session_token returns, a
\* token no session holds
Login(body_ok, username, password, fresh) ==
    LET r == PostRequest("/api/auth/login", NoToken, body_ok,
                         [username |-> username, password |-> password])
    IN IF ~body_ok THEN Reject(r, Response(400, "Invalid JSON"))
       ELSE IF verify_password(username, password)
            THEN /\ fresh \notin DOMAIN active_sessions
                 /\ active_sessions' = StoreSession(fresh, username)
                 /\ Serve(r, [Response(200, "success")
                                 EXCEPT !.token = fresh], <<>>)
                 /\ UNCHANGED <<config, pending_trades, last_removed, now>>
            ELSE Reject(r, Response(401, "Invalid credentials"))

\* the TradeSuggestion built from the body of an execute request at second t
RequestSuggestion(s, t) ==
    TradeSuggestion(Get(s.market, "kalshi"), Get(s.symbol, ""),
                    Get(s.side, "yes"),
                    <<Get(s.amount, config.trade_size), 1>>,
                    Get(s.price, 500), Get(s.confidence, 500), t)

\* a handler that answers 'pending' without storing the suggestion
InsertNothing(suggestion) == pending_trades

\* pending_trades[suggestion.id] = suggestion
Insert(suggestion) ==
    [k \in DOMAIN pending_trades \cup {suggestion.id} |->
        IF k = suggestion.id THEN suggestion ELSE pending_trades[k]]

\* a confirm that leaves the entry in place
DeleteNothing(trade_id) == pending_trades

\* del trading_service.pending_trades[trade_id]
Delete(trade_id) ==
    [k \in DOMAIN pending_trades \ {trade_id} |-> pending_trades[k]]

\* a handler that queues every suggestion
AlwaysConfirm == TRUE

\* if trading_service.config['confirm_trades']
ConfirmationRequired == config.confirm_trades

\* a handler that answers 'cancelled' for an id that is not pending
NotFoundAsCancelled(r) == Reject(r, Response(200, "cancelled"))

\* the 404 of a confirm or cancel whose trade_id is not pending
NotFound(r) == Reject(r, Response(404, "Trade not found"))

\* POST /api/trading/execute, the clock reading t when the suggestion is built
Execute(t, token, body_ok, s, outcome) ==
    LET r == PostRequest("/api/trading/execute", token, body_ok, s)
        suggestion == RequestSuggestion(s, t)
        result == execute_trade(suggestion, outcome)
    IN IF ~body_ok THEN Reject(r, Response(400, "Invalid JSON"))
       ELSE IF ~require_auth(token)
            THEN Reject(r, Response(401, "Unauthorized"))
       ELSE IF ConfirmationRequired
            THEN /\ \/ suggestion.id \in DOMAIN pending_trades
                    \/ Cardinality(DOMAIN pending_trades) < MaxPending
                 /\ pending_trades' = Insert(suggestion)
                 /\ now' = t
                 /\ Serve(r, TradeResponse("pending", suggestion.id), <<>>)
                 /\ UNCHANGED <<config, active_sessions, last_removed>>
            ELSE /\ now' = t
                 /\ Serve(r,
                          TradeResponse(IF result.success THEN "executed"
                                        ELSE "failed", suggestion.id),
                          result.calls)
                 /\ UNCHANGED <<config, active_sessions, pending_trades,
                                last_removed>>

\* POST /api/trading/confirm
Confirm(token, body_ok, trade_id, outcome) ==
    LET r == PostRequest("/api/trading/confirm", token, body_ok,
                         [trade_id |-> trade_id])
    IN IF ~body_ok THEN Reject(r, Response(400, "Invalid JSON"))
       ELSE IF ~require_auth(token)
            THEN Reject(r, Response(401, "Unauthorized"))
       ELSE IF trade_id \in DOMAIN pending_trades
            THEN LET result == execute_trade(pending_trades[trade_id], outcome)
                 IN /\ pending_trades' = Delete(trade_id)
                    /\ last_removed' = trade_id
                    /\ Serve(r,
                             TradeResponse(IF result.success THEN "executed"
                                           ELSE "failed", trade_id),
                             result.calls)
                    /\ UNCHANGED <<config, active_sessions, now>>
            ELSE NotFound(r)

\* POST /api/trading/cancel
Cancel(token, body_ok, trade_id) ==
    LET r == PostRequest("/api/trading/cancel", token, body_ok,
                         [trade_id |-> trade_id])
    IN IF ~body_ok THEN Reject(r, Response(400, "Invalid JSON"))
       ELSE IF ~require_auth(token)
            THEN Reject(r, Response(401, "Unauthorized"))
       ELSE IF trade_id \in DOMAIN pending_trades
            THEN /\ pending_trades' = Delete(trade_id)
                 /\ last_removed' = trade_id
                 /\ Serve(r, TradeResponse("cancelled", trade_id), <<>>)
                 /\ UNCHANGED <<config, active_sessions, now>>
            ELSE NotFound(r)

\* POST /api/trading/config
UpdateConfig(token, body_ok, new_config) ==
    LET r == PostRequest("/api/trading/config", token, body_ok, new_config)
    IN IF ~body_ok THEN Reject(r, Response(400, "Invalid JSON"))
       ELSE IF ~require_auth(token)
            THEN Reject(r, Response(401, "Unauthorized"))
       ELSE /\ config' = update_config(new_config)
            /\ Serve(r, DataResponse("updated", <<config'>>), <<>>)
            /\ UNCHANGED <<active_sessions, pending_trades, last_removed,
                           now>>

\* POST to any other path
PostNotFound(token, body_ok) ==
    LET r == PostRequest("/other", token, body_ok, [body |-> "JSON"])
    IN IF ~body_ok THEN Reject(r, Response(400, "Invalid JSON"))
       ELSE IF ~require_auth(token)
            THEN Reject(r, Response(401, "Unauthorized"))
       ELSE Reject(r, Response(404, "Not found"))

\* GET /api/trading/recommendations, the clock reading t when the
\* suggestions are built, snapshot what the venues answer
GetRecommendations(t, token, snapshot) ==
    LET r == GetRequest("/api/trading/recommendations", token)
    IN IF ~require_auth(token)
       THEN Reject(r, Response(401, "Unauthorized"))
       ELSE /\ now' = t
            /\ Serve(r,
                   DataResponse("suggestions",
                       get_all_recommendations(TRADING_AVAILABLE, kalshi,
                           kraken, snapshot, config.trade_size, t)),
                   <<>>)
            /\ UNCHANGED <<config, active_sessions, pending_trades,
                           last_removed>>

\* get_balances: a venue whose get_balance raises keeps its empty entry
get_balances(kalshi_raises, kraken_raises) ==
    [kalshi |-> IF TRADING_AVAILABLE /\ kalshi = "client" /\ ~kalshi_raises
                THEN "balance" ELSE "empty",
     kraken |-> IF TRADING_AVAILABLE /\ kraken = "client" /\ ~kraken_raises
                THEN "balance" ELSE "empty"]

\* GET /api/trading/balances
GetBalances(token, kalshi_raises, kraken_raises) ==
    LET r == GetRequest("/api/trading/balances", token)
    IN IF ~require_auth(token)
       THEN Reject(r, Response(401, "Unauthorized"))
       ELSE Reject(r, DataResponse("balances",
                          <<get_balances(kalshi_raises, kraken_raises)>>))

\* GET /api/trading/config
GetConfig(token) ==
    LET r == GetRequest("/api/trading/config", token)
    IN IF ~require_auth(token)
       THEN Reject(r, Response(401, "Unauthorized"))
       ELSE Reject(r, DataResponse("config", <<config>>))

\* GET /api/trading/health
Health ==
    Reject(GetRequest("/api/trading/health", NoToken),
           DataResponse("healthy",
                        <<[trading_available |-> TRADING_AVAILABLE]>>))

\* GET /api/auth/verify
Verify(token) ==
    Reject(GetRequest("/api/auth/verify", token),
           IF get_session_user(token) \notin {"None", ""}
           THEN DataResponse("authenticated",
                             <<[user |-> get_session_user(token)]>>)
           ELSE DataResponse("not authenticated", <<>>))

\* GET of any other path
GetNotFound ==
    Reject(GetRequest("/other", NoToken), Response(404, "Not found"))

---------------------------------------------------------------------------
(* Specifications *)

\* One request is handled.  I gives the sets its inputs are drawn from.  The
\* body of a request answered 400 or 401 is never used, and neither is the
\* venue's answer when no order is placed: one value stands for all there.
Requests(I) ==
    \/ \E body_ok \in BOOLEAN :
          \E u \in (IF body_ok THEN I.usernames ELSE {""}),
             p \in (IF body_ok THEN I.passwords ELSE {""}) :
             \E fresh \in (IF body_ok /\ verify_password(u, p) THEN I.fresh
                           ELSE {NoToken}) :
                Login(body_ok, u, p, fresh)
    \/ \E token \in I.tokens, body_ok \in BOOLEAN :
          LET used == body_ok /\ require_auth(token) IN
          \/ \E t \in (IF used THEN I.times ELSE {now}),
                s \in (IF used THEN I.suggestions
                       ELSE {CHOOSE x \in I.suggestions : TRUE}),
                o \in (IF used /\ ~config.confirm_trades THEN Outcomes
                       ELSE {"ok"}) :
                Execute(t, token, body_ok, s, o)
          \/ \E id \in (IF used THEN I.trade_ids ELSE {None}) :
                \E o \in (IF used /\ id \in DOMAIN pending_trades
                          THEN Outcomes ELSE {"ok"}) :
                   Confirm(token, body_ok, id, o)
          \/ \E id \in (IF used THEN I.trade_ids ELSE {None}) :
                Cancel(token, body_ok, id)
          \/ \E c \in (IF used THEN I.updates
                       ELSE {CHOOSE x \in I.updates : TRUE}) :
                UpdateConfig(token, body_ok, c)
          \/ PostNotFound(token, body_ok)
    \/ \E token \in I.tokens :
          \/ \E t \in (IF require_auth(token) THEN I.times ELSE {now}),
                snapshot \in I.snapshots :
                GetRecommendations(t, token, snapshot)
          \/ \E a \in I.balance_raises : GetBalances(token, a, a)
          \/ GetConfig(token)
          \/ Verify(token)
    \/ Health
    \/ GetNotFound

\* generate_session_token returns a token never returned before; tokens are
\* numbered in the order they are issued
NextTokens == {t \in Tokens : t = Cardinality(DOMAIN active_sessions) + 1}

Inputs ==
    [times |-> Times, usernames |-> Usernames, passwords |-> Passwords,
     fresh |-> NextTokens, tokens |-> RequestTokens,
     suggestions |-> ReqSuggestions, trade_ids |-> ReqTradeIds,
     updates |-> ConfigUpdates, snapshots |-> HandlerSnapshots,
     balance_raises |-> {FALSE}]

Next == Requests(Inputs)

\* the service as run_server runs it: HTTPServer handles one request at a
\* time, each handler running to completion
Spec == Init /\ [][Next]_vars

\* The same service with both users, an unknown user and one more session
\* than Spec has, and one suggestion to submit: the requests that log in and
\* the requests that present a token.
AuthTokens == 1 .. (MaxSessions + 1)

AuthInputs ==
    [times |-> {now}, usernames |-> {"admin", "glorb", "mallory"},
     passwords |-> Passwords, fresh |-> AuthTokens,
     tokens |-> {NoToken} \cup AuthTokens,
     suggestions |-> {s \in ReqSuggestions : s.market = Missing},
     trade_ids |-> ReqTradeIds,
     updates |-> {c \in ConfigUpdates : c.confirm_trades # Missing},
     snapshots |-> HandlerSnapshots, balance_raises |-> {FALSE}]

NextAuth == Requests(AuthInputs)

SpecAuth == Init /\ [][NextAuth]_vars

\* The same service with the numbers a client can put into a suggestion
\* (float() accepts any number: a negative amount, a confidence above 1)
\* and into a config update (a trade size of 0).
WideSuggestions ==
    [market : {Missing}, symbol : ReqSymbols, side : {Missing},
     amount : {Missing, <<-5>>, <<250>>}, price : {Missing},
     confidence : {Missing, <<1500>>}]

WideUpdates ==
    [trade_size : {<<0>>, <<100>>}, confirm_trades : {Missing},
     enabled : {Missing}]

WideInputs ==
    [times |-> Times, usernames |-> {"admin"}, passwords |-> {"glorb2024"},
     fresh |-> NextTokens, tokens |-> RequestTokens,
     suggestions |-> WideSuggestions, trade_ids |-> ReqTradeIds,
     updates |-> WideUpdates, snapshots |-> HandlerSnapshots,
     balance_raises |-> {FALSE}]

NextWide == Requests(WideInputs)

SpecWide == Init /\ [][NextWide]_vars

\* The same service with config updates that name any subset of the three
\* keys, the advisory flag `enabled` among them.
ConfigBodies ==
    [trade_size : {Missing, <<250>>},
     confirm_trades : {Missing, <<TRUE>>, <<FALSE>>},
     enabled : {Missing, <<TRUE>>, <<FALSE>>}]

ConfigInputs ==
    [times |-> Times, usernames |-> {"admin"}, passwords |-> {"glorb2024"},
     fresh |-> NextTokens, tokens |-> RequestTokens,
     suggestions |-> {s \in ReqSuggestions : s.market = Missing},
     trade_ids |-> ReqTradeIds, updates |-> ConfigBodies,
     snapshots |-> HandlerSnapshots, balance_raises |-> {FALSE}]

NextConfig == Requests(ConfigInputs)

SpecConfig == Init /\ [][NextConfig]_vars

---------------------------------------------------------------------------
(* The confirm and the cancel handler under a transport that runs each       *)
(* request in a thread of its own (ThreadingHTTPServer in place of           *)
(* HTTPServer): the statements of the two handlers interleave.  An uncaught  *)
(* KeyError ends a handler without a response.                               *)

InFlight(name) == threads[name].pc \notin {"idle", "done"}

Other(name) == IF name = "confirm" THEN "cancel" ELSE "confirm"

\* the handler name moves on to the state th
Step(name, th) ==
    /\ threads' = [threads EXCEPT ![name] = th,
                                  !.overlapped = @ \/ InFlight(Other(name))]
    /\ UNCHANGED <<TRADING_AVAILABLE, kalshi, kraken, config, active_sessions,
                   executed_trades, now, req, resp, placed>>

Crash(th) == [th EXCEPT !.pc = "done", !.resp = NoResponse]

\* a confirm or cancel request arrives, is parsed and passes require_auth
ThreadStart(name, token, trade_id) ==
    /\ threads[name].pc = "idle"
    /\ require_auth(token)
    /\ Step(name, [threads[name] EXCEPT
                      !.pc = "test", !.trade_id = trade_id,
                      !.was_pending = trade_id \in DOMAIN pending_trades])
    /\ UNCHANGED <<pending_trades, last_removed>>

\* if trade_id in trading_service.pending_trades, in either handler
ThreadTest(name) ==
    LET th == threads[name] IN
    /\ th.pc = "test"
    /\ IF th.trade_id \in DOMAIN pending_trades
       THEN Step(name, [th EXCEPT !.pc = IF name = "confirm" THEN "read"
                                         ELSE "delete"])
       ELSE Step(name, [th EXCEPT !.pc = "done",
                                  !.resp = Response(404, "Trade not found")])
    /\ UNCHANGED <<pending_trades, last_removed>>

\* suggestion = trading_service.pending_trades[trade_id]
ConfirmRead ==
    LET th == threads.confirm IN
    /\ th.pc = "read"
    /\ IF th.trade_id \in DOMAIN pending_trades
       THEN Step("confirm", [th EXCEPT !.pc = "execute",
                                !.suggestion = pending_trades[th.trade_id]])
       ELSE Step("confirm", Crash(th))
    /\ UNCHANGED <<pending_trades, last_removed>>

\* success = trading_service.execute_trade(suggestion)
ConfirmExecute(outcome) ==
    LET th == threads.confirm
        result == execute_trade(th.suggestion, outcome)
    IN /\ th.pc = "execute"
       /\ Step("confirm", [th EXCEPT !.pc = "delete",
                                     !.success = result.success,
                                     !.calls = result.calls])
       /\ UNCHANGED <<pending_trades, last_removed>>

\* del trading_service.pending_trades[trade_id] and the response after it;
\* del raises KeyError when the key is gone
ThreadDelete(name) ==
    LET th == threads[name] IN
    /\ th.pc = "delete"
    /\ IF th.trade_id \in DOMAIN pending_trades
       THEN /\ pending_trades' = Delete(th.trade_id)
            /\ last_removed' = th.trade_id
            /\ Step(name, [th EXCEPT
                   !.pc = "done", !.deleted = TRUE,
                   !.resp = TradeResponse(
                       IF name = "cancel" THEN "cancelled"
                       ELSE IF th.success THEN "executed" ELSE "failed",
                       th.trade_id)])
       ELSE /\ Step(name, Crash(th))
            /\ UNCHANGED <<pending_trades, last_removed>>

\* the requests that bring a trade into pending_trades, handled while no
\* confirm or cancel is in flight
Setup ==
    /\ threads = NoThreads
    /\ \/ \E fresh \in Tokens : Login(TRUE, "admin", "glorb2024", fresh)
       \/ \E token \in Tokens, s \in ReqSuggestions :
             Execute(now, token, TRUE, s, "ok")

NextThreaded ==
    \/ Setup
    \/ \E name \in {"confirm", "cancel"} :
          \/ \E token \in Tokens, id \in ReqTradeIds :
                ThreadStart(name, token, id)
          \/ ThreadTest(name)
          \/ ThreadDelete(name)
    \/ ConfirmRead
    \/ \E o \in Outcomes : ConfirmExecute(o)

SpecThreaded == Init /\ [][NextThreaded]_vars

\* get_all_recommendations as a function of what the venues answer: the
\* service is constructed, the trade size is any a config update can set
InitRec ==
    /\ TRADING_AVAILABLE \in BOOLEAN
    /\ kalshi \in (IF TRADING_AVAILABLE THEN {"client", "None"} ELSE {"None"})
    /\ kraken \in (IF TRADING_AVAILABLE THEN {"client", "None"} ELSE {"None"})
    /\ config \in [trade_size : TradeSizes, confirm_trades : {TRUE},
                   enabled : {TRUE}]
    /\ active_sessions = <<>>
    /\ pending_trades = <<>>
    /\ executed_trades = <<>>
    /\ now = 0
    /\ req \in {[method |-> "call", path |-> "get_all_recommendations",
                 snapshot |-> s] : s \in Snapshots(kalshi, kraken)}
    /\ resp = NoResponse
    /\ placed = <<>>
    /\ last_removed = None
    /\ threads = NoThreads

Recommend ==
    /\ resp = NoResponse
    /\ resp' = DataResponse("suggestions",
                   get_all_recommendations(TRADING_AVAILABLE, kalshi, kraken,
                       req.snapshot, config.trade_size, now))
    /\ UNCHANGED <<TRADING_AVAILABLE, kalshi, kraken, config, active_sessions,
                   pending_trades, executed_trades, now, req, placed, last_removed,
                   threads>>

NextRec == Recommend

SpecRec == InitRec /\ [][NextRec]_vars

---------------------------------------------------------------------------
(* Properties *)

\* the step handles an authenticated POST to path whose body is JSON
Handled(path) ==
    /\ req'.method = "POST"
    /\ req'.path = path
    /\ req'.body_ok
    /\ require_auth(req'.token)

\* the request handled last was a POST to path answered with code
Answered(path, code) ==
    /\ req.method = "POST"
    /\ req.path = path
    /\ resp.code = code

\* a confirm and a cancel of one id that was pending when each began have
\* both ended, and their steps interleaved
RaceEnded ==
    /\ threads.confirm.pc = "done"
    /\ threads.cancel.pc = "done"
    /\ threads.overlapped
    /\ threads.confirm.trade_id = threads.cancel.trade_id
    /\ threads.confirm.was_pending
    /\ threads.cancel.was_pending

\* C1: when a confirm and a cancel of the same pending id interleave, the
\* trade leaves pending_trades at most once, at most one of the two is
\* answered 200 and the other is answered 404 'Trade not found', and no
\* order is placed for a trade whose cancel was answered 'cancelled'.
C1_Original ==
    RaceEnded =>
        /\ ~(threads.confirm.deleted /\ threads.cancel.deleted)
        /\ \/ /\ threads.confirm.resp.code = 200
              /\ threads.cancel.resp = Response(404, "Trade not found")
           \/ /\ threads.cancel.resp.code = 200
              /\ threads.confirm.resp = Response(404, "Trade not found")
        /\ threads.cancel.resp.status = "cancelled"
               => threads.confirm.calls = <<>>

\* C2: handled one at a time, a confirm or cancel of the id removed from
\* pending_trades last is answered 404 'Trade not found'.
C2_Original ==
    [][(/\ \/ Handled("/api/trading/confirm")
           \/ Handled("/api/trading/cancel")
        /\ last_removed # None
        /\ req'.data.trade_id = last_removed)
       => resp' = Response(404, "Trade not found")]_vars

\* execute_trade can reach a venue for this suggestion: the trading modules
\* were imported, the market names a venue and its adapter is configured
VenueReachable(suggestion) ==
    /\ TRADING_AVAILABLE
    /\ \/ suggestion.market = "kalshi" /\ kalshi = "client"
       \/ suggestion.market = "kraken" /\ kraken = "client"

\* the place_order calls of the step are one call for this suggestion
PlacedOnceFor(suggestion) ==
    /\ Len(placed') = 1
    /\ placed'[1].market = suggestion.market
    /\ placed'[1].symbol = suggestion.symbol
    /\ placed'[1].side = suggestion.side
    /\ placed'[1].amount = suggestion.amount

\* the status of the step's response reports what execute_trade returned
\* for this suggestion: True after a place_order call that did not raise
TerminalStatusFor(suggestion) ==
    /\ resp'.code = 200
    /\ IF VenueReachable(suggestion)
       THEN /\ PlacedOnceFor(suggestion)
            /\ resp'.status = IF placed'[1].outcome = "raise" THEN "failed"
                              ELSE "executed"
       ELSE /\ placed' = <<>>
            /\ resp'.status = "failed"

\* an execute request handled while confirm_trades is true is answered
\* 'pending' with the id of the suggestion built from its body, which is
\* then in pending_trades, and no order is placed
SubmitQueues ==
    (Handled("/api/trading/execute") /\ config.confirm_trades)
    => /\ resp'.code = 200
       /\ resp'.status = "pending"
       /\ resp'.trade_id = RequestSuggestion(req'.data, now').id
       /\ resp'.trade_id \in DOMAIN pending_trades'
       /\ pending_trades'[resp'.trade_id] = RequestSuggestion(req'.data, now')
       /\ placed' = <<>>

\* the step handles a confirm of the id the execute request before it was
\* answered 'pending' with
ConfirmFollowsSubmit ==
    /\ Answered("/api/trading/execute", 200)
    /\ resp.status = "pending"
    /\ Handled("/api/trading/confirm")
    /\ req'.data.trade_id = resp.trade_id

\* the original statement of C3: the confirm that follows calls place_order
\* exactly once for the suggestion, whatever the venue's state
C3_Original ==
    [][/\ SubmitQueues
       /\ ConfirmFollowsSubmit
          => /\ resp.trade_id \in DOMAIN pending_trades
             /\ resp.trade_id \notin DOMAIN pending_trades'
             /\ PlacedOnceFor(pending_trades[resp.trade_id])]_vars

\* C3: with confirm_trades true an authenticated execute request is answered
\* 'pending' with a trade_id under which the submitted suggestion is then in
\* pending_trades, and no order is placed; a following confirm of that id
\* removes the entry and calls place_order exactly once for the suggestion
\* when execute_trade can reach the venue, and not at all when it cannot.
C3_SubmitThenConfirm ==
    [][/\ SubmitQueues
       /\ ConfirmFollowsSubmit
          => /\ resp.trade_id \in DOMAIN pending_trades
             /\ resp.trade_id \notin DOMAIN pending_trades'
             /\ TerminalStatusFor(pending_trades[resp.trade_id])]_vars

\* a submit answered 'pending' was followed by a confirm that placed one
\* order and emptied pending_trades
C3_Witness ==
    /\ Answered("/api/trading/confirm", 200)
    /\ resp.status = "executed"
    /\ Len(placed) = 1
    /\ req.data.trade_id = TradeId("kraken", "M1", 0)
    /\ pending_trades = <<>>

\* C4: an authenticated confirm or cancel whose trade_id is not a key of
\* pending_trades (never submitted, or absent from the body) is answered 404
\* 'Trade not found', places no order and leaves pending_trades, config and
\* active_sessions unchanged.
C4_NotFound ==
    [][(/\ \/ Handled("/api/trading/confirm")
           \/ Handled("/api/trading/cancel")
        /\ req'.data.trade_id \notin DOMAIN pending_trades)
       => /\ resp' = Response(404, "Trade not found")
          /\ placed' = <<>>
          /\ UNCHANGED <<pending_trades, config, active_sessions>>]_vars

\* a confirm without a trade_id was answered 404 while a trade is pending
C4_Witness ==
    /\ Answered("/api/trading/confirm", 404)
    /\ req.data.trade_id = None
    /\ pending_trades # <<>>

\* C5: a confirm of a pending id is answered 'executed' or 'failed' as
\* execute_trade returned, and whatever the outcome the id is no longer in
\* pending_trades afterwards and nothing else was removed or added.
C5_ConfirmRemoves ==
    [][(Handled("/api/trading/confirm")
        /\ req'.data.trade_id \in DOMAIN pending_trades)
       => /\ TerminalStatusFor(pending_trades[req'.data.trade_id])
          /\ resp'.trade_id = req'.data.trade_id
          /\ DOMAIN pending_trades' =
                 DOMAIN pending_trades \ {req'.data.trade_id}]_vars

\* a confirm whose place_order call raised was answered 'failed' and the id
\* is not pending
C5_Witness ==
    /\ Answered("/api/trading/confirm", 200)
    /\ resp.status = "failed"
    /\ Len(placed) = 1
    /\ placed[1].outcome = "raise"
    /\ req.data.trade_id \notin DOMAIN pending_trades

\* C6: with confirm_trades false an authenticated execute request is
\* answered 'executed' or 'failed' as execute_trade returned for the
\* suggestion built from its body, and pending_trades is unchanged.
C6_ImmediateExecution ==
    [][(Handled("/api/trading/execute") /\ ~config.confirm_trades)
       => /\ TerminalStatusFor(RequestSuggestion(req'.data, now'))
          /\ resp'.trade_id = RequestSuggestion(req'.data, now').id
          /\ UNCHANGED pending_trades]_vars

\* an execute request placed its order at once while an earlier suggestion
\* stayed pending
C6_Witness ==
    /\ Answered("/api/trading/execute", 200)
    /\ resp.status = "executed"
    /\ Len(placed) = 1
    /\ pending_trades # <<>>
    /\ resp.trade_id \notin DOMAIN pending_trades

\* C7: after a confirm of a pending trade that was answered 'executed',
\* executed_trades has an entry for that suggestion.
C7_Original ==
    (Answered("/api/trading/confirm", 200) /\ resp.status = "executed")
    => \E i \in 1 .. Len(executed_trades) :
          executed_trades[i].id = req.data.trade_id

\* the paths require_auth guards
ProtectedPaths ==
    {"/api/trading/recommendations", "/api/trading/balances",
     "/api/trading/config", "/api/trading/execute", "/api/trading/confirm",
     "/api/trading/cancel"}

\* the step handles a login whose credentials verify_password rejects
FailedLogin ==
    /\ req'.method = "POST"
    /\ req'.path = "/api/auth/login"
    /\ req'.body_ok
    /\ ~verify_password(req'.data.username, req'.data.password)

\* the step handles a request to a protected path whose token no login
\* has issued (no token at all included)
NeverIssued ==
    /\ req'.method \in {"GET", "POST"}
    /\ req'.path \in ProtectedPaths
    /\ req'.token \notin DOMAIN active_sessions

LoginRefused ==
    FailedLogin => /\ resp' = Response(401, "Invalid credentials")
                   /\ UNCHANGED active_sessions

\* the original statement of C8: every such request is answered 401
C8_Original ==
    [][/\ LoginRefused
       /\ NeverIssued => /\ resp' = Response(401, "Unauthorized")
                         /\ placed' = <<>>
                         /\ UNCHANGED <<pending_trades, config>>]_vars

\* C8: a login with an unknown username or a wrong password is answered 401
\* and adds no session; a request to a protected path whose token was never
\* issued is answered 401, or 400 'Invalid JSON' when it is a POST whose body
\* is not JSON, and in both cases places no order and changes neither
\* pending_trades nor config nor active_sessions.
C8_Unauthenticated ==
    [][/\ LoginRefused
       /\ NeverIssued
          => /\ resp' = IF req'.method = "POST" /\ ~req'.body_ok
                        THEN Response(400, "Invalid JSON")
                        ELSE Response(401, "Unauthorized")
             /\ placed' = <<>>
             /\ UNCHANGED <<pending_trades, config, active_sessions>>]_vars

\* an execute request with a token no login issued was answered 401 while
\* a session exists and a trade is pending
C8_Witness ==
    /\ Answered("/api/trading/execute", 401)
    /\ req.token # NoToken
    /\ req.token \notin DOMAIN active_sessions
    /\ active_sessions # <<>>
    /\ pending_trades # <<>>

\* C9: every session stored in active_sessions is still there, with the same
\* username, after any request.
C9_SessionsKept ==
    [][\A k \in DOMAIN active_sessions :
          /\ k \in DOMAIN active_sessions'
          /\ active_sessions'[k] = active_sessions[k]]_vars

\* two users hold sessions and the request handled last is a config update
\* made with the older one
C9_Witness ==
    /\ Answered("/api/trading/config", 200)
    /\ \E k1, k2 \in DOMAIN active_sessions :
          /\ k1 # k2
          /\ active_sessions[k1] # active_sessions[k2]
          /\ req.token = k1

WellFormed(suggestion) ==
    /\ suggestion.confidence >= 0
    /\ suggestion.confidence <= 1000
    /\ suggestion.amount[1] > 0
    /\ suggestion.amount[2] > 0

\* C11: every entry of pending_trades and every suggestion a
\* recommendations response carries has a confidence in [0,1] and a
\* positive amount.
C11_Original ==
    /\ \A id \in DOMAIN pending_trades : WellFormed(pending_trades[id])
    /\ resp.status = "suggestions"
          => \A i \in 1 .. Len(resp.data) : WellFormed(resp.data[i])

\* what the two sub-procedures return for the snapshot of the call, the
\* binary venue's suggestions first
SubProcedureOutput ==
    get_kalshi_recommendations(TRADING_AVAILABLE, kalshi, req.snapshot.kalshi,
                               config.trade_size, now)
    \o get_kraken_recommendations(TRADING_AVAILABLE, kraken,
                                  req.snapshot.kraken, config.trade_size, now)

\* a and b hold the same elements, each as often
IsPermutation(a, b) ==
    /\ Len(a) = Len(b)
    /\ \A i \in 1 .. Len(a) :
          Cardinality({j \in 1 .. Len(a) : a[j] = a[i]})
          = Cardinality({j \in 1 .. Len(b) : b[j] = a[i]})

\* C12: get_all_recommendations returns exactly the suggestions of the two
\* sub-procedures, nothing added or dropped, sorted by confidence descending.
C12_SortedUnion ==
    resp.status = "suggestions"
    => /\ IsPermutation(resp.data, SubProcedureOutput)
       /\ \A i \in 1 .. Len(resp.data) - 1 :
             resp.data[i].confidence >= resp.data[i + 1].confidence

\* the sort moved a spot-venue suggestion in front of a binary-venue one of
\* lower confidence
C12_Witness ==
    /\ resp.status = "suggestions"
    /\ Len(resp.data) >= 3
    /\ resp.data[1].market = "kraken"
    /\ \E i \in 2 .. Len(resp.data) :
          /\ resp.data[i].market = "kalshi"
          /\ resp.data[i].confidence < resp.data[1].confidence

\* the recommendations response carries a suggestion for this instrument
Suggested(market, symbol) ==
    \E i \in 1 .. Len(resp.data) :
        resp.data[i].market = market /\ resp.data[i].symbol = symbol

\* C13: no suggestion of the output comes from a binary-venue market with
\* volume below 1000, whatever its price, nor from a spot-venue symbol whose
\* change is below 2% in absolute value or whose volume is below 10.
C13_Thresholds ==
    resp.status = "suggestions"
    => /\ \A i \in 1 .. Len(req.snapshot.kalshi.markets) :
             LET market == req.snapshot.kalshi.markets[i] IN
             (~market.malformed /\ market.volume < 1000)
             => ~Suggested("kalshi", market.id)
       /\ \A k \in 1 .. Len(WatchList) :
             LET ticker == req.snapshot.kraken[k] IN
             (ticker.kind = "quote"
              /\ (Abs(ticker.change) < 20 \/ ticker.volume < 10))
             => ~Suggested("kraken", WatchList[k])

\* a market priced at 1 with volume 999 and a symbol that moved 1.9% were
\* left out of an output that holds suggestions of both venues
C13_Witness ==
    /\ resp.status = "suggestions"
    /\ \E i \in 1 .. Len(req.snapshot.kalshi.markets) :
          /\ req.snapshot.kalshi.markets[i].volume = 999
          /\ req.snapshot.kalshi.markets[i].current_price = 1000
          /\ ~Suggested("kalshi", req.snapshot.kalshi.markets[i].id)
    /\ \E k \in 1 .. Len(WatchList) :
          /\ req.snapshot.kraken[k].change = -19
          /\ ~Suggested("kraken", WatchList[k])
    /\ \E i, j \in 1 .. Len(resp.data) :
          resp.data[i].market = "kalshi" /\ resp.data[j].market = "kraken"

\* a quote that passes the volume and the change filter
PassesFilters(ticker) ==
    /\ ticker.kind = "quote"
    /\ ticker.volume >= 10
    /\ Abs(ticker.change) >= 20

\* the spot venue was asked for every symbol and get_ticker never raised
SpotVenueAnswered ==
    /\ resp.status = "suggestions"
    /\ TRADING_AVAILABLE
    /\ kraken = "client"
    /\ \A k \in 1 .. Len(WatchList) : req.snapshot.kraken[k].kind # "raise"

\* C14: a symbol whose quote has a zero or missing last price yields no
\* suggestion, and every other symbol of the watch list that passes the
\* filters still yields its suggestion.
C14_Original ==
    SpotVenueAnswered
    => \A k \in 1 .. Len(WatchList) :
          LET ticker == req.snapshot.kraken[k] IN
          /\ (ticker.kind = "quote" /\ ticker.last = 0)
             => ~Suggested("kraken", WatchList[k])
          /\ (PassesFilters(ticker) /\ ticker.last # 0)
             => Suggested("kraken", WatchList[k])

\* the binary venue is unavailable or an exception is raised during its
\* fetch: by get_markets, or by the loop on a malformed market
KalshiFails ==
    \/ ~TRADING_AVAILABLE
    \/ kalshi = "None"
    \/ req.snapshot.kalshi.raises
    \/ \E i \in 1 .. Len(req.snapshot.kalshi.markets) :
          req.snapshot.kalshi.markets[i].malformed

\* the spot venue is unavailable or get_ticker raises for a symbol
KrakenFails ==
    \/ ~TRADING_AVAILABLE
    \/ kraken = "None"
    \/ \E k \in 1 .. Len(WatchList) : req.snapshot.kraken[k].kind = "raise"

FromVenue(market) ==
    \E i \in 1 .. Len(resp.data) : resp.data[i].market = market

\* C15: a venue that is unavailable, or whose fetch raises at any point,
\* contributes an empty sequence, and the call still returns.
C15_Original ==
    resp.status = "suggestions"
    => /\ KalshiFails => ~FromVenue("kalshi")
       /\ KrakenFails => ~FromVenue("kraken")

IsKalshi(suggestion) == suggestion.market = "kalshi"
IsKraken(suggestion) == suggestion.market = "kraken"

\* what the call returns with these adapters and these venue answers
Returned(kalshi_client, kraken_client, kalshi_answer, kraken_answer) ==
    get_all_recommendations(TRADING_AVAILABLE, kalshi_client, kraken_client,
        [kalshi |-> kalshi_answer, kraken |-> kraken_answer],
        config.trade_size, now)

\* other behaviours of the spot venue: every quote good, get_ticker raising
\* at once, raising at the third symbol, a zero last price at the second
OtherKrakenAnswers ==
    {[k \in 1 .. Len(WatchList) |-> Quote(50000, 50, 100)],
     NoKrakenTickers,
     [k \in 1 .. Len(WatchList) |->
         IF k = 3 THEN NoKrakenTickers[k] ELSE Quote(2, -150, 10)],
     [k \in 1 .. Len(WatchList) |->
         IF k = 2 THEN Quote(0, 30, 100) ELSE Quote(50000, 50, 100)]}

\* other behaviours of the binary venue: get_markets raising, no market, one
\* market at price 1, a malformed market after a good one
OtherKalshiAnswers ==
    {NoKalshiFetch,
     [raises |-> FALSE, markets |-> <<>>],
     [raises |-> FALSE,
      markets |-> WithIds(<<[current_price |-> 1000, volume |-> 1000,
                             malformed |-> FALSE]>>)],
     [raises |-> FALSE,
      markets |-> WithIds(<<[current_price |-> 200, volume |-> 1000,
                             malformed |-> FALSE],
                            [current_price |-> 500, volume |-> 0,
                             malformed |-> TRUE]>>)]}

\* C16: the suggestions a venue contributes to get_all_recommendations are
\* the same whether the other venue succeeds, is unavailable or raises.
C16_Independent ==
    resp.status = "suggestions"
    => /\ \A client \in {"client", "None"}, answer \in OtherKrakenAnswers :
             SelectSeq(Returned(kalshi, client, req.snapshot.kalshi, answer),
                       IsKalshi)
             = SelectSeq(resp.data, IsKalshi)
       /\ \A client \in {"client", "None"}, answer \in OtherKalshiAnswers :
             SelectSeq(Returned(client, kraken, answer, req.snapshot.kraken),
                       IsKraken)
             = SelectSeq(resp.data, IsKraken)

\* the binary venue contributed two suggestions in a call in which
\* get_ticker raised for the first symbol
C16_Witness ==
    /\ resp.status = "suggestions"
    /\ TRADING_AVAILABLE
    /\ kraken = "client"
    /\ req.snapshot.kraken[1].kind = "raise"
    /\ Len(SelectSeq(resp.data, IsKalshi)) = 2
    /\ Len(resp.data) = 2

\* the step handles an execute or a confirm that calls execute_trade
ReachesExecuteTrade ==
    \/ Handled("/api/trading/execute") /\ ~config.confirm_trades
    \/ /\ Handled("/api/trading/confirm")
       /\ req'.data.trade_id \in DOMAIN pending_trades

\* C17: an execute or confirm that reaches execute_trade calls place_order
\* at most once and is answered 'executed' when the order was placed
\* successfully, 'failed' when the call raised, returned a failure or could
\* not be made.
C17_Original ==
    [][ReachesExecuteTrade
       => /\ Len(placed') <= 1
          /\ resp'.code = 200
          /\ resp'.status =
                 IF Len(placed') = 1 /\ placed'[1].outcome = "ok"
                 THEN "executed" ELSE "failed"]_vars

\* C18: an execute request accepted with confirm_trades true adds one new
\* entry to pending_trades and leaves every entry already pending in place.
C18_Original ==
    [][(Handled("/api/trading/execute") /\ config.confirm_trades)
       => /\ resp'.trade_id \notin DOMAIN pending_trades
          /\ DOMAIN pending_trades' =
                 DOMAIN pending_trades \cup {resp'.trade_id}
          /\ \A id \in DOMAIN pending_trades :
                 pending_trades'[id] = pending_trades[id]]_vars

\* the step handles a confirm or a cancel of a pending id
HandledPending(path) ==
    Handled(path) /\ req'.data.trade_id \in DOMAIN pending_trades

\* pending_trades after the step is pending_trades without the request's id
RemovesRequested ==
    /\ DOMAIN pending_trades' = DOMAIN pending_trades \ {req'.data.trade_id}
    /\ \A id \in DOMAIN pending_trades' :
          pending_trades'[id] = pending_trades[id]

\* What a trading request answers, what it leaves in pending_trades and the
\* orders it places, given by the state before it without config.enabled.
TradingOutcome ==
    /\ SubmitQueues
    /\ (Handled("/api/trading/execute") /\ config.confirm_trades)
       => pending_trades' = Insert(RequestSuggestion(req'.data, now'))
    /\ (Handled("/api/trading/execute") /\ ~config.confirm_trades)
       => /\ TerminalStatusFor(RequestSuggestion(req'.data, now'))
          /\ UNCHANGED pending_trades
    /\ HandledPending("/api/trading/confirm")
       => /\ TerminalStatusFor(pending_trades[req'.data.trade_id])
          /\ RemovesRequested
    /\ HandledPending("/api/trading/cancel")
       => /\ resp' = TradeResponse("cancelled", req'.data.trade_id)
          /\ placed' = <<>>
          /\ RemovesRequested
    /\ \/ Handled("/api/trading/execute")
       \/ Handled("/api/trading/confirm")
       \/ Handled("/api/trading/cancel")
       => config' = config

\* C19: the `enabled` flag is advisory: the response, pending_trades and the
\* orders placed by an execute, confirm or cancel are the same function of
\* the request and of the rest of the state whether enabled is true or
\* false, so two runs that differ only in that flag agree on them; execute
\* and confirm place their order when enabled is false.
C19_EnabledAdvisory == [][TradingOutcome]_vars

\* with enabled false a confirm placed its order and was answered
\* 'executed'
C19_Witness ==
    /\ ~config.enabled
    /\ Answered("/api/trading/confirm", 200)
    /\ resp.status = "executed"
    /\ Len(placed) = 1

\* C20: an authenticated config update sets the keys its body names and no
\* other, answers with the new config, and leaves pending_trades and
\* active_sessions unchanged; a pending trade is confirmed or cancelled the
\* same way whatever confirm_trades is by then.
C20_ConfigUpdate ==
    [][/\ Handled("/api/trading/config")
          => /\ config'.trade_size =
                    Get(req'.data.trade_size, config.trade_size)
             /\ config'.confirm_trades =
                    Get(req'.data.confirm_trades, config.confirm_trades)
             /\ config'.enabled = Get(req'.data.enabled, config.enabled)
             /\ resp' = DataResponse("updated", <<config'>>)
             /\ placed' = <<>>
             /\ UNCHANGED <<pending_trades, active_sessions>>
       /\ HandledPending("/api/trading/confirm")
          => /\ resp'.code = 200
             /\ resp'.status \in {"executed", "failed"}
             /\ RemovesRequested
       /\ HandledPending("/api/trading/cancel")
          => /\ resp' = TradeResponse("cancelled", req'.data.trade_id)
             /\ RemovesRequested]_vars

\* a trade that was pending when confirm_trades was switched to false was
\* cancelled afterwards
C20_Witness ==
    /\ ~config.confirm_trades
    /\ Answered("/api/trading/cancel", 200)
    /\ resp.status = "cancelled"
    /\ config.trade_size = 250

====
